---- MODULE Spec2Model ----
(***************************************************************************)
(* Model of the recompilation module of sourcify (src/unnamed/part_000):   *)
(* recompile -> useCompiler -> getSolcExecutable / fetchSolcFromGitHub /   *)
(* getSolcJs, and the extraction of the target contract from the compiler  *)
(* output.                                                                 *)
(*                                                                         *)
(* Strings are sequences of one-character strings, so that concatenation,  *)
(* trim, startsWith and encodeURIComponent are computed, not assumed.      *)
(* A JSON value that may be missing (undefined) is None or Some(x).        *)
(***************************************************************************)
EXTENDS Integers, Sequences, FiniteSets, TLC

\* ------------------------------------------------------------------ bounds

\* Number of recompile calls (slots) the caller may have issued.
NumCalls == 2
\* Longest metadata string a compiler output carries.
MaxMetaLen == 3
\* Longest diagnostics (`errors`) list a compiler output carries.
MaxDiags == 1

\* Longest bytecode string enumerated character by character.
MaxCodeLen == 5
\* Longest version string enumerated character by character.
MaxVerLen == 3
\* Longest deployed code ahead of the four characters of the metadata length.
MaxFill == 68
\* Longest bytecode of the pairs probablyImmutables compares.
MaxPairLen == 2

Calls == 1..NumCalls
\* Operating-system processes a call may run in.
Procs == 1..2

\* ----------------------------------------------------------------- strings

None == [has |-> FALSE]
Some(x) == [has |-> TRUE, val |-> x]

\* All sequences over alphabet A of length at most n.
RECURSIVE SeqsUpTo(_, _)
SeqsUpTo(A, n) ==
    IF n = 0 THEN {<< >>}
    ELSE LET shorter == SeqsUpTo(A, n - 1)
         IN  shorter \cup {Append(s, a) : s \in shorter, a \in A}

StartsWith(s, p) == Len(s) >= Len(p) /\ SubSeq(s, 1, Len(p)) = p

\* Characters String.prototype.trim removes (those of the model's alphabet).
WhiteSpace == {" "}

RECURSIVE TrimStart(_)
TrimStart(s) ==
    IF s # << >> /\ Head(s) \in WhiteSpace THEN TrimStart(Tail(s)) ELSE s

RECURSIVE TrimEnd(_)
TrimEnd(s) ==
    IF s # << >> /\ s[Len(s)] \in WhiteSpace
    THEN TrimEnd(SubSeq(s, 1, Len(s) - 1))
    ELSE s

\* String.prototype.trim
Trim(s) == TrimEnd(TrimStart(s))

\* encodeURIComponent on the model's alphabet: a space is escaped, letters,
\* digits, "-" and "." are kept.
RECURSIVE encodeURIComponent(_)
encodeURIComponent(s) ==
    IF s = << >> THEN << >>
    ELSE (IF Head(s) = " " THEN <<"%", "2", "0">> ELSE <<Head(s)>>)
         \o encodeURIComponent(Tail(s))

\* ------------------------------------------------------ names and versions

Latest == <<"l", "a", "t", "e", "s", "t">>
SolcPrefix ==
    <<"s", "o", "l", "c", "-", "l", "i", "n", "u", "x", "-",
      "a", "m", "d", "6", "4", "-", "v">>
SoljsonPrefix == <<"s", "o", "l", "j", "s", "o", "n", "-">>
JsSuffix == <<".", "j", "s">>
GITHUB_SOLC_REPO == <<"g", "h", "/">>

\* The release the caches may hold, standing for "0.6.6+commit.6c089d02".
Release == <<"0">>

\* metadata.compiler.version as callers spell it.
Versions ==
    { Release, <<"v">> \o Release, <<" ">> \o Release, Latest }

\* A canonicalization that prepends v to whatever it is given.
CanonAlwaysPrefixed(version) == <<"v">> \o Trim(version)

\* getSolcJs, lines 275-278: trim; keep "latest"; prepend v unless present.
CanonVersion(version) ==
    LET t == Trim(version)
    IN  IF t # Latest /\ ~StartsWith(t, <<"v">>) THEN <<"v">> \o t ELSE t

\* getSolcExecutable, line 211: `solc-linux-amd64-v${version}`.
NativeFileName(version) == SolcPrefix \o version

\* getSolcJs, line 281: `soljson-${version}.js` of the canonical version.
SoljsonFileName(version) == SoljsonPrefix \o CanonVersion(version) \o JsSuffix

\* fetchSolcFromGitHub, line 228.
GithubSolcURI(fileName) == GITHUB_SOLC_REPO \o encodeURIComponent(fileName)

\* Directories: the temporary-download directory (SOLC_REPO_TMP), the primary
\* native repository (SOLC_REPO), the module repository (SOLJSON_REPO).
TmpSolcRepo == "tmp"
SolcRepo == "repo"
SoljsonRepo == "soljson"

\* Path.join / Path.resolve of a directory and a file name.
PathJoin(dir, name) == [dir |-> dir, name |-> name]

\* A search order that tries the primary repository first.
RepoPathsPrimaryFirst == <<SolcRepo, TmpSolcRepo>>

\* A search order that forgets the temporary-download directory.
RepoPathsPrimaryOnly == <<SolcRepo>>

\* getSolcExecutable, line 214: the temporary directory, then the primary one.
RepoPaths == <<TmpSolcRepo, SolcRepo>>

\* -------------------------------------------------------- compiler output

\* reformatMetadata's target (recompile, lines 146-150).
TargetFile == "A.sol"
TargetContract == "A"
OtherFile == "B.sol"
OtherContract == "B"

Hex1 == <<"6", "0", "0", "1">>
Hex2 == <<"6", "0", "0", "2">>
Hex3 == <<"6", "0", "0", "3">>
Hex4 == <<"6", "0", "0", "4">>

\* A contract entry: evm.bytecode.object, evm.deployedBytecode.object, metadata.
ContractEntry(bc, dbc, md) ==
    [bytecodeObject |-> bc, deployedBytecodeObject |-> dbc, metadata |-> md]

Metas == SeqsUpTo({" ", "{"}, MaxMetaLen)
TargetEntries == {ContractEntry(Hex1, Hex2, md) : md \in Metas}
OtherEntry == ContractEntry(Hex3, Hex4, <<"{", " ">>)
\* The entry of the end-to-end scenario: "6001", "6002", "  {}  ".
ExampleEntry == ContractEntry(Hex1, Hex2, <<" ", " ", "{", "}", " ", " ">>)

EmptyObject == [k \in {} |-> None]
Obj1(k, v) == [x \in {k} |-> v]
Obj2(k1, v1, k2, v2) == [x \in {k1, k2} |-> IF x = k1 THEN v1 ELSE v2]

\* The `contracts` sections that lack the target contract.
SectionsWithoutTarget ==
    { None,
      Some(EmptyObject),
      Some(Obj1(OtherFile, Obj1(TargetContract, OtherEntry))),
      Some(Obj1(TargetFile, EmptyObject)),
      Some(Obj1(TargetFile, Obj1(OtherContract, OtherEntry))) }

\* The `contracts` sections that hold it: alone, beside another contract of the
\* same file, beside the same contract name in another file.
SectionsWithTarget ==
    {Some(Obj1(TargetFile, Obj1(TargetContract, e))) : e \in TargetEntries}
    \cup { Some(Obj1(TargetFile, Obj1(TargetContract, ExampleEntry))),
           Some(Obj1(TargetFile,
                     Obj2(TargetContract, ContractEntry(Hex1, Hex2, <<" ", "{", " ">>),
                          OtherContract, OtherEntry))),
           Some(Obj2(TargetFile,
                     Obj1(TargetContract, ContractEntry(Hex1, Hex2, <<"{">>)),
                     OtherFile, Obj1(TargetContract, OtherEntry))) }

ContractsSections == SectionsWithoutTarget \cup SectionsWithTarget

\* Diagnostic entries of the compiler output.
Diags ==
    { [severity |-> "error", message |-> "d1"],
      [severity |-> "error", message |-> "d2"],
      [severity |-> "warning", message |-> "d1"] }
DiagTexts == {d.message : d \in Diags}

\* The `errors` section: absent, or a list of diagnostics.
ErrorsSections == {None} \cup {Some(l) : l \in SeqsUpTo(Diags, MaxDiags)}

CompilerOutput(contracts, errors) == [contracts |-> contracts, errors |-> errors]
Outputs == {CompilerOutput(s, e) : s \in ContractsSections, e \in ErrorsSections}

\* The text a compiler hands back: standard-JSON text, or nothing at all.
JsonText(output) == [kind |-> "json", value |-> output]
EmptyText == [kind |-> "empty"]

\* ----------------------------------------------------------------- results

Pending == [kind |-> "none"]
Returned(v) == [kind |-> "returned", value |-> v]
Thrown(name, message) ==
    [kind |-> "thrown", error |-> [name |-> name, message |-> message]]

\* An error's message is a sequence of text parts.
RecompilationError == Thrown("Error", <<"Recompilation error">>)
InvalidMetadataMessage ==
    <<"Recompilation error (probably caused by invalid metadata)">>
JsonSyntaxError == Thrown("SyntaxError", <<"Unexpected end of JSON input">>)
FilterTypeError ==
    Thrown("TypeError", <<"Cannot read property 'filter' of undefined">>)
FetchError == Thrown("FetchError", <<"request failed">>)
RequireError == Thrown("Error", <<"Cannot load module">>)
\* What solc.loadRemoteVersion passes to its callback when it fails.
RemoteErrors ==
    { <<"Error retrieving binary: Not Found">>, <<"getaddrinfo ENOTFOUND">> }

LogEntry(level, msg, errors) == [level |-> level, msg |-> msg, errors |-> errors]

\* recompile, line 163: the messages of the diagnostics of severity "error".
IsError(e) == e.severity = "error"
ErrorMessages(errors) ==
    LET kept == SelectSeq(errors, IsError)
    IN  [i \in 1..Len(kept) |-> kept[i].message]

\* Whether output.contracts[fileName][contractName] is missing (line 162).
TargetMissing(output, fileName, contractName) ==
    \/ ~output.contracts.has
    \/ fileName \notin DOMAIN output.contracts.val
    \/ contractName \notin DOMAIN output.contracts.val[fileName]

\* An error message that carries the diagnostics along.
LeakyMissingError(output) ==
    Thrown("Error", InvalidMetadataMessage \o ErrorMessages(output.errors.val))

\* recompile, line 165: the error thrown for a missing target.
MissingError(output) == Thrown("Error", InvalidMetadataMessage)

\* A result that forgets the 0x prefix of the deployed bytecode.
ResultNoPrefix(contract) ==
    [bytecode |-> <<"0", "x">> \o contract.bytecodeObject,
     deployedBytecode |-> contract.deployedBytecodeObject,
     metadata |-> Trim(contract.metadata)]

\* recompile, lines 169-173: the RecompilationResult of a contract entry.
RecompilationResult(contract) ==
    [bytecode |-> <<"0", "x">> \o contract.bytecodeObject,
     deployedBytecode |-> <<"0", "x">> \o contract.deployedBytecodeObject,
     metadata |-> Trim(contract.metadata)]

\* recompile, lines 161-173, on the text useCompiler returned: the result and
\* what is logged.
Extraction(text, fileName, contractName) ==
    IF text.kind # "json"
    THEN [result |-> JsonSyntaxError, logged |-> << >>]
    ELSE LET output == text.value
         IN  IF TargetMissing(output, fileName, contractName)
             THEN IF ~output.errors.has
                  THEN [result |-> FilterTypeError, logged |-> << >>]
                  ELSE [result |-> MissingError(output),
                        logged |-> <<LogEntry("error", "",
                                              ErrorMessages(output.errors.val))>>]
             ELSE [result |-> Returned(RecompilationResult(
                                  output.contracts.val[fileName][contractName])),
                   logged |-> << >>]

\* ------------------------------------------------------------------ state

VARIABLES
    pc,        \* where each recompile call stands
    version,   \* metadata.compiler.version of the call
    fileName,  \* getSolcExecutable's native file name
    solcPath,  \* useCompiler's solcPath: None (null) or Some(path)
    compiled,  \* useCompiler's `compiled`: None (null) or Some(text)
    result,    \* how the call settled: returned value or thrown error
    log,       \* what the call logged
    trace,     \* the file-system, network and compiler operations of the call
    ran,       \* the content of the native binary when the call spawned it
    request,   \* the request for the native binary: its state, status, address
    disk,      \* the files of the three directories, with their content
    proc,      \* the operating-system process each call runs in
    op,        \* the exported helper under evaluation, "none" during recompile
    args,      \* the helper's arguments
    ret        \* the helper's successive results

vars == <<pc, version, fileName, solcPath, compiled, result, log, trace, ran,
          request, disk, proc, op, args, ret>>

\* A file is complete, or opened for writing and not yet closed.
Complete == "complete"
Partial == "partial"

ReleaseBinary == SolcPrefix \o Release
ReleaseModule == SoljsonPrefix \o <<"v">> \o Release \o JsSuffix

\* Files an installation may hold before any call.
InstalledFiles ==
    { PathJoin(TmpSolcRepo, ReleaseBinary),
      PathJoin(SolcRepo, ReleaseBinary),
      PathJoin(SoljsonRepo, ReleaseModule) }

\* fs.existsSync
ExistsSync(files, path) == path \in DOMAIN files

\* fs.writeFileSync, in two steps: open (create or truncate), then the last
\* write and close.
OpenForWrite(files, path) ==
    [p \in DOMAIN files \cup {path} |-> IF p = path THEN Partial ELSE files[p]]
CloseWritten(files, path) ==
    [p \in DOMAIN files \cup {path} |-> IF p = path THEN Complete ELSE files[p]]

ExistsEvent(dir) ==
    CASE dir = TmpSolcRepo -> "existsSync:tmp"
      [] dir = SolcRepo -> "existsSync:repo"
      [] OTHER -> "existsSync:soljson"

\* A lookup that never finds a cached binary.
RECURSIVE SearchReposBlind(_, _, _)
SearchReposBlind(repoPaths, name, files) ==
    IF repoPaths = << >>
    THEN [path |-> None, probed |-> << >>]
    ELSE LET rest == SearchReposBlind(Tail(repoPaths), name, files)
         IN  [path |-> rest.path,
              probed |-> <<ExistsEvent(Head(repoPaths))>> \o rest.probed]

\* getSolcExecutable, lines 215-220: the first repository holding the file.
RECURSIVE SearchRepos(_, _, _)
SearchRepos(repoPaths, name, files) ==
    IF repoPaths = << >>
    THEN [path |-> None, probed |-> << >>]
    ELSE LET p == PathJoin(Head(repoPaths), name)
         IN  IF ExistsSync(files, p)
             THEN [path |-> Some(p), probed |-> <<ExistsEvent(Head(repoPaths))>>]
             ELSE LET rest == SearchRepos(Tail(repoPaths), name, files)
                  IN  [path |-> rest.path,
                       probed |-> <<ExistsEvent(Head(repoPaths))>> \o rest.probed]

\* A synchronous section (writeFileSync) blocks the other calls of its process.
Runnable(c) ==
    \A d \in Calls \ {c} : proc[d] = proc[c] => pc[d] # "writing"

Idle(c) == pc[c] = "idle"
Settled(c) == pc[c] \in {"returned", "thrown"}

Logged(c, entries) == log' = [log EXCEPT ![c] = @ \o entries]
Traced(c, events) == trace' = [trace EXCEPT ![c] = @ \o events]
Goto(c, label) == pc' = [pc EXCEPT ![c] = label]
Throw(c, error) ==
    /\ pc' = [pc EXCEPT ![c] = "thrown"]
    /\ result' = [result EXCEPT ![c] = error]

Info(msg) == LogEntry("info", msg, << >>)
Err(msg) == LogEntry("error", msg, << >>)

\* ---------------------------------------------------------------- actions

\* StatusCodes.OK
StatusOK == 200

\* The request of fetch(githubSolcURI): not made, pending, fulfilled with a
\* response status, or rejected (the request itself failed).
NoRequest == [state |-> "none", status |-> 0, url |-> << >>]
Requested(uri) == [state |-> "pending", status |-> 0, url |-> uri]
Fulfilled(r, status) == [r EXCEPT !.state = "fulfilled", !.status = status]
Rejected(r) == [r EXCEPT !.state = "rejected"]
\* The statuses the archive answers with.
Statuses == {StatusOK, 404, 500}

\* recompile called with version v: lines 146-160, useCompiler line 187-188,
\* getSolcExecutable lines 211-223 and fetchSolcFromGitHub up to its request
\* (line 232), which is where the call first waits.
Recompile(c, v) ==
    /\ Idle(c)
    /\ Runnable(c)
    /\ LET name == NativeFileName(v)
           found == SearchRepos(RepoPaths, name, disk)
       IN  /\ version' = [version EXCEPT ![c] = v]
           /\ fileName' = [fileName EXCEPT ![c] = name]
           /\ solcPath' = [solcPath EXCEPT ![c] = found.path]
           /\ IF found.path.has
              THEN /\ Goto(c, "spawn")
                   /\ Traced(c, found.probed)
                   /\ Logged(c, <<Info("Recompiling")>>)
                   /\ UNCHANGED request
              ELSE /\ Goto(c, "fetching")
                   /\ Traced(c, found.probed \o <<"fetch">>)
                   /\ Logged(c, <<Info("Recompiling"),
                                  Info("Fetching executable solc from GitHub")>>)
                   /\ request' = [request EXCEPT ![c] =
                                      Requested(GithubSolcURI(name))]
    /\ UNCHANGED <<compiled, result, ran, disk, proc, op, args, ret>>

\* A test that takes every answer below 500 for the binary.
NotServerError(status) == status < 500

\* fetchSolcFromGitHub, line 233: res.status === StatusCodes.OK.
IsOK(status) == status = StatusOK

\* fetchSolcFromGitHub, lines 232-242: the request completed with a status.
FetchSolcResponded(c, status) ==
    /\ pc[c] = "fetching"
    /\ Runnable(c)
    /\ IF IsOK(status)
       THEN /\ Goto(c, "buffering")
            /\ Logged(c, <<Info("Successfully fetched executable solc from GitHub")>>)
            /\ Traced(c, <<"mkdirSync">>)
       ELSE /\ Goto(c, "getSolcJs")
            /\ Logged(c, <<Err("Failed fetching executable solc from GitHub")>>)
            /\ UNCHANGED trace
    /\ request' = [request EXCEPT ![c] = Fulfilled(@, status)]
    /\ UNCHANGED <<version, fileName, solcPath, compiled, result, ran, disk, proc, op, args, ret>>

\* fetchSolcFromGitHub, line 232: the request itself raised. Nothing catches
\* it in fetchSolcFromGitHub, getSolcExecutable, useCompiler or recompile.
FetchSolcRaised(c) ==
    /\ pc[c] = "fetching"
    /\ Runnable(c)
    /\ Throw(c, FetchError)
    /\ request' = [request EXCEPT ![c] = Rejected(@)]
    /\ UNCHANGED <<version, fileName, solcPath, compiled, log, trace, ran, disk, proc, op, args, ret>>

\* fetchSolcFromGitHub, lines 236-237: the body arrived; writeFileSync opens
\* (creates or truncates) the file in the temporary-download directory.
BufferRead(c) ==
    /\ pc[c] = "buffering"
    /\ Runnable(c)
    /\ disk' = OpenForWrite(disk, PathJoin(TmpSolcRepo, fileName[c]))
    /\ Traced(c, <<"writeFileSync">>)
    /\ Goto(c, "writing")
    /\ UNCHANGED <<version, fileName, solcPath, compiled, result, log, ran, request, proc, op, args, ret>>

\* fetchSolcFromGitHub, line 236: reading the body raised.
BufferRaised(c) ==
    /\ pc[c] = "buffering"
    /\ Runnable(c)
    /\ Throw(c, FetchError)
    /\ UNCHANGED <<version, fileName, solcPath, compiled, log, trace, ran, request,
                   disk, proc, op, args, ret>>

\* fetchSolcFromGitHub, lines 237-238, and getSolcExecutable, line 224:
\* writeFileSync wrote and closed the file; its path is the solcPath.
FileWritten(c) ==
    /\ pc[c] = "writing"
    /\ disk' = CloseWritten(disk, PathJoin(TmpSolcRepo, fileName[c]))
    /\ solcPath' = [solcPath EXCEPT ![c] = Some(PathJoin(TmpSolcRepo, fileName[c]))]
    /\ Goto(c, "spawn")
    /\ UNCHANGED <<version, fileName, compiled, result, log, trace, ran, request, proc, op, args, ret>>

\* What spawnSync reports: no stdout at all (the process could not be started),
\* or the bytes the process wrote, which may be none. A file still being
\* written cannot produce a compilation.
SpawnResults(content, outs) ==
    { [stdout |-> None, error |-> "spawn error"],
      [stdout |-> Some(EmptyText), error |-> ""] }
    \cup (IF content = Complete
          THEN {[stdout |-> Some(JsonText(o)), error |-> ""] : o \in outs}
          ELSE {})

\* useCompiler, line 196: !shellOutputBuffer.stdout. stdout is null or a
\* Buffer, and a Buffer, empty or not, is an object: it is truthy.
StdoutMissing(stdout) == ~stdout.has

\* A useCompiler that turns to the module compiler when the native binary
\* yields no output.
SpawnSolcFallsBack(c, outs) ==
    /\ pc[c] = "spawn"
    /\ Runnable(c)
    /\ \E r \in SpawnResults(disk[solcPath[c].val], outs) :
          /\ ran' = [ran EXCEPT ![c] = disk[solcPath[c].val]]
          /\ Traced(c, <<"spawnSync">>)
          /\ Logged(c, <<Info("Compiling with external executable")>>)
          /\ IF StdoutMissing(r.stdout)
             THEN Goto(c, "getSolcJs") /\ UNCHANGED compiled
             ELSE /\ compiled' = [compiled EXCEPT ![c] = Some(r.stdout.val)]
                  /\ Goto(c, "parse")
          /\ UNCHANGED result
    /\ UNCHANGED <<version, fileName, solcPath, request, disk, proc, op, args, ret>>

\* useCompiler, lines 192-201: the native binary is run.
SpawnSolc(c, outs) ==
    /\ pc[c] = "spawn"
    /\ Runnable(c)
    /\ \E r \in SpawnResults(disk[solcPath[c].val], outs) :
          /\ ran' = [ran EXCEPT ![c] = disk[solcPath[c].val]]
          /\ Traced(c, <<"spawnSync">>)
          /\ IF StdoutMissing(r.stdout)
             THEN /\ Logged(c, <<Info("Compiling with external executable"),
                                 Err(IF r.error # "" THEN r.error
                                                     ELSE "Recompilation error")>>)
                  /\ Throw(c, RecompilationError)
                  /\ UNCHANGED compiled
             ELSE /\ Logged(c, <<Info("Compiling with external executable")>>)
                  /\ compiled' = [compiled EXCEPT ![c] = Some(r.stdout.val)]
                  /\ Goto(c, "parse")
                  /\ UNCHANGED result
    /\ UNCHANGED <<version, fileName, solcPath, request, disk, proc, op, args, ret>>

\* getSolcJs, lines 275-304, up to the module being loaded or requested.
\* `loads` is whether require() of a local module succeeds.
GetSolcJs(c, loads) ==
    /\ pc[c] = "getSolcJs"
    /\ Runnable(c)
    /\ IF ExistsSync(disk, PathJoin(SoljsonRepo, SoljsonFileName(version[c])))
       THEN /\ Traced(c, <<ExistsEvent(SoljsonRepo), "require">>)
            /\ Logged(c, <<Info("Searching for js solc locally"),
                           Info("Found js solc locally")>>)
            /\ IF loads
               THEN Goto(c, "compileJs") /\ UNCHANGED result
               ELSE Throw(c, RequireError)
       ELSE /\ Traced(c, <<ExistsEvent(SoljsonRepo), "loadRemoteVersion">>)
            /\ Logged(c, <<Info("Searching for js solc locally"),
                           Info("Searching for js solc remotely")>>)
            /\ Goto(c, "loadingRemote")
            /\ UNCHANGED result
    /\ UNCHANGED <<version, fileName, solcPath, compiled, ran, request, disk, proc, op, args, ret>>

\* A getSolcJs that saves the module it fetched into the module repository.
RemoteLoadedPersists(c) ==
    /\ pc[c] = "loadingRemote"
    /\ Runnable(c)
    /\ Logged(c, <<Info("Found solc remotely")>>)
    /\ Goto(c, "compileJs")
    /\ disk' = CloseWritten(disk, PathJoin(SoljsonRepo, SoljsonFileName(version[c])))
    /\ UNCHANGED <<version, fileName, solcPath, compiled, result, trace, ran, request,
                   proc, op, args, ret>>

\* getSolcJs, lines 299-301: the remote module arrived.
RemoteLoaded(c) ==
    /\ pc[c] = "loadingRemote"
    /\ Runnable(c)
    /\ Logged(c, <<Info("Found solc remotely")>>)
    /\ Goto(c, "compileJs")
    /\ UNCHANGED <<version, fileName, solcPath, compiled, result, trace, ran, request,
                   disk, proc, op, args, ret>>

\* getSolcJs, line 298: reject(error), the error of the callback as it is.
Rejection(error) == Thrown("Error", error)

\* getSolcJs, lines 296-298: the remote fetch failed with `error`.
RemoteFailed(c, error) ==
    /\ pc[c] = "loadingRemote"
    /\ Runnable(c)
    /\ Logged(c, <<Err("Could not find solc remotely")>>)
    /\ Throw(c, Rejection(error))
    /\ UNCHANGED <<version, fileName, solcPath, compiled, trace, ran, request, disk, proc, op, args, ret>>

\* useCompiler, line 204: the module compiles in-process.
CompileJs(c, outs) ==
    /\ pc[c] = "compileJs"
    /\ Runnable(c)
    /\ \E o \in outs : compiled' = [compiled EXCEPT ![c] = Some(JsonText(o))]
    /\ Traced(c, <<"compile">>)
    /\ Goto(c, "parse")
    /\ UNCHANGED <<version, fileName, solcPath, result, log, ran, request, disk, proc, op, args, ret>>

\* recompile, lines 161-173: parse the text and extract the target contract.
Extract(c) ==
    /\ pc[c] = "parse"
    /\ Runnable(c)
    /\ LET x == Extraction(compiled[c].val, TargetFile, TargetContract)
       IN  /\ result' = [result EXCEPT ![c] = x.result]
           /\ Logged(c, x.logged)
           /\ Goto(c, IF x.result.kind = "returned" THEN "returned" ELSE "thrown")
    /\ UNCHANGED <<version, fileName, solcPath, compiled, trace, ran, request, disk, proc, op, args, ret>>

\* The caller has taken the outcome; the slot is free for the next call.
Settle(c) ==
    /\ Settled(c)
    /\ pc' = [pc EXCEPT ![c] = "idle"]
    /\ version' = [version EXCEPT ![c] = << >>]
    /\ fileName' = [fileName EXCEPT ![c] = << >>]
    /\ solcPath' = [solcPath EXCEPT ![c] = None]
    /\ compiled' = [compiled EXCEPT ![c] = None]
    /\ result' = [result EXCEPT ![c] = Pending]
    /\ log' = [log EXCEPT ![c] = << >>]
    /\ trace' = [trace EXCEPT ![c] = << >>]
    /\ ran' = [ran EXCEPT ![c] = "none"]
    /\ request' = [request EXCEPT ![c] = NoRequest]
    /\ UNCHANGED <<disk, proc, op, args, ret>>

\* ---------------------------------------------------------- specifications

\* No exported helper is under evaluation.
NoHelper ==
    /\ op = "none"
    /\ args = << >>
    /\ ret = << >>

NoCalls ==
    /\ pc = [c \in Calls |-> "idle"]
    /\ version = [c \in Calls |-> << >>]
    /\ fileName = [c \in Calls |-> << >>]
    /\ solcPath = [c \in Calls |-> None]
    /\ compiled = [c \in Calls |-> None]
    /\ result = [c \in Calls |-> Pending]
    /\ log = [c \in Calls |-> << >>]
    /\ trace = [c \in Calls |-> << >>]
    /\ ran = [c \in Calls |-> "none"]
    /\ request = [c \in Calls |-> NoRequest]

\* The outputs the compilers of Spec and SpecConc produce: the target missing
\* with and without diagnostics, and the target present.
SampleOutputs ==
    { CompilerOutput(None, Some(<< >>)),
      CompilerOutput(Some(EmptyObject), None),
      CompilerOutput(Some(Obj1(TargetFile,
                               Obj1(TargetContract,
                                    ContractEntry(Hex1, Hex2, <<" ", "{", " ">>)))),
                     None) }

\* One process whose caller awaits each recompile before the next one; the
\* directories hold any of the installed files.
Init ==
    /\ NoCalls
    /\ NoHelper
    /\ \E held \in SUBSET InstalledFiles : disk = [p \in held |-> Complete]
    /\ proc = [c \in Calls |-> 1]

StartAlone(c) ==
    /\ \A d \in Calls : Idle(d)
    /\ \E v \in Versions : Recompile(c, v)

Step(c, outs) ==
    \/ \E status \in Statuses : FetchSolcResponded(c, status)
    \/ FetchSolcRaised(c)
    \/ BufferRead(c)
    \/ BufferRaised(c)
    \/ FileWritten(c)
    \/ SpawnSolc(c, outs)
    \/ \E loads \in BOOLEAN : GetSolcJs(c, loads)
    \/ RemoteLoaded(c)
    \/ \E error \in RemoteErrors : RemoteFailed(c, error)
    \/ CompileJs(c, outs)
    \/ Extract(c)

Next == \E c \in Calls : StartAlone(c) \/ Step(c, SampleOutputs) \/ Settle(c)

Spec == Init /\ [][Next]_vars

\* Calls of one release issued concurrently, in one process or in several
\* processes sharing the directories; no native binary is cached yet.
InitConc ==
    /\ NoCalls
    /\ NoHelper
    /\ \E held \in SUBSET {PathJoin(SoljsonRepo, ReleaseModule)} :
          disk = [p \in held |-> Complete]
    /\ proc \in [Calls -> Procs]

ConcOutputs ==
    { CompilerOutput(Some(Obj1(TargetFile,
                               Obj1(TargetContract,
                                    ContractEntry(Hex1, Hex2, <<"{">>)))),
                     None) }

NextConc == \E c \in Calls : Recompile(c, Release) \/ Step(c, ConcOutputs)

SpecConc == InitConc /\ [][NextConc]_vars

\* The extraction of recompile on every compiler output: each call has
\* compiled with the cached native binary and holds the compiler's text; the
\* calls' outputs share the `contracts` section and differ in diagnostics.
InitExtract ==
    /\ pc = [c \in Calls |-> "parse"]
    /\ version = [c \in Calls |-> Release]
    /\ fileName = [c \in Calls |-> ReleaseBinary]
    /\ solcPath = [c \in Calls |-> Some(PathJoin(TmpSolcRepo, ReleaseBinary))]
    /\ \E s \in ContractsSections :
          \E e \in [Calls -> ErrorsSections] :
             compiled = [c \in Calls |-> Some(JsonText(CompilerOutput(s, e[c])))]
    /\ result = [c \in Calls |-> Pending]
    /\ log = [c \in Calls |-> <<Info("Recompiling"),
                                Info("Compiling with external executable")>>]
    /\ trace = [c \in Calls |-> <<ExistsEvent(TmpSolcRepo), "spawnSync">>]
    /\ ran = [c \in Calls |-> Complete]
    /\ request = [c \in Calls |-> NoRequest]
    /\ disk = [p \in {PathJoin(TmpSolcRepo, ReleaseBinary)} |-> Complete]
    /\ proc = [c \in Calls |-> 1]
    /\ NoHelper

NextExtract == \E c \in Calls : Extract(c)

SpecExtract == InitExtract /\ [][NextExtract]_vars

\* -------------------------------------------------------- exported helpers

\* The radix getBytecodeWithoutMetadata passes to parseInt.
Radix == 16

HexLower ==
    <<"0", "1", "2", "3", "4", "5", "6", "7", "8", "9", "a", "b", "c", "d", "e", "f">>
HexUpper ==
    <<"0", "1", "2", "3", "4", "5", "6", "7", "8", "9", "A", "B", "C", "D", "E", "F">>

\* parseInt's digits of radix 16, in either case, and their values.
IsDigit(ch) == \E i \in 1..Radix : HexLower[i] = ch \/ HexUpper[i] = ch
DigitValue(ch) == (CHOOSE i \in 1..Radix : HexLower[i] = ch \/ HexUpper[i] = ch) - 1

\* parseInt: the longest prefix of s made of digits.
RECURSIVE DigitPrefix(_)
DigitPrefix(s) ==
    IF s # << >> /\ IsDigit(Head(s)) THEN <<Head(s)>> \o DigitPrefix(Tail(s)) ELSE << >>

\* parseInt: the mathematical value of a digit string.
RECURSIVE DigitsValue(_)
DigitsValue(s) ==
    IF s = << >> THEN 0
    ELSE DigitsValue(SubSeq(s, 1, Len(s) - 1)) * Radix + DigitValue(s[Len(s)])

\* parseInt(s, 16): leading white space is skipped, a sign is taken, a 0x or
\* 0X prefix is dropped, the digits up to the first other character are
\* read; no digit gives NaN, which is None here.
ParseInt(s) ==
    LET t == TrimStart(s)
        negative == t # << >> /\ Head(t) = "-"
        unsigned == IF t # << >> /\ Head(t) \in {"+", "-"} THEN Tail(t) ELSE t
        stripped == IF StartsWith(unsigned, <<"0", "x">>) \/ StartsWith(unsigned, <<"0", "X">>)
                    THEN SubSeq(unsigned, 3, Len(unsigned))
                    ELSE unsigned
        digits == DigitPrefix(stripped)
    IN  IF digits = << >> THEN None
        ELSE Some(IF negative THEN 0 - DigitsValue(digits) ELSE DigitsValue(digits))

\* ToIntegerOrInfinity of a number: NaN becomes 0.
ToInteger(n) == IF n.has THEN n.val ELSE 0

\* An index of String.prototype.slice, relative to the end when negative and
\* clamped to the string.
Clamp(len, i) ==
    IF i < 0 THEN (IF len + i < 0 THEN 0 ELSE len + i)
    ELSE (IF i > len THEN len ELSE i)

\* String.prototype.slice(start, end)
Slice(s, start, end) ==
    LET from == Clamp(Len(s), start)
        to == Clamp(Len(s), end)
    IN  IF from >= to THEN << >> ELSE SubSeq(s, from + 1, to)

\* String.prototype.slice(start)
SliceFrom(s, start) == Slice(s, start, Len(s))

\* A metadata size that forgets the two bytes of the length field.
MetadataSizeNoLength(bytecode) ==
    LET n == ParseInt(SliceFrom(bytecode, -4))
    IN  IF n.has THEN Some(n.val * 2) ELSE None

\* getBytecodeWithoutMetadata, line 253: parseInt(bytecode.slice(-4), 16) * 2 + 4,
\* NaN when parseInt gives NaN.
MetadataSize(bytecode) ==
    LET n == ParseInt(SliceFrom(bytecode, -4))
    IN  IF n.has THEN Some(n.val * 2 + 4) ELSE None

\* A getBytecodeWithoutMetadata that rejects a bytecode without a metadata
\* component of the announced size.
StrictWithoutMetadata(bytecode) ==
    LET size == MetadataSize(bytecode)
    IN  IF size.has /\ size.val >= 4 /\ size.val <= Len(bytecode)
        THEN Returned(Slice(bytecode, 0, Len(bytecode) - size.val))
        ELSE Thrown("Error", <<"Invalid bytecode">>)

\* getBytecodeWithoutMetadata, lines 251-255. No operation of it throws on a
\* string; length - NaN is NaN.
getBytecodeWithoutMetadata(bytecode) ==
    LET size == MetadataSize(bytecode)
        end == IF size.has THEN Some(Len(bytecode) - size.val) ELSE None
    IN  Returned(Slice(bytecode, 0, ToInteger(end)))

\* JavaScript values of probablyImmutables: strings and booleans.
JsString(s) == [type |-> "string", str |-> s]
JsBoolean(b) == [type |-> "boolean", bool |-> b]

\* ToBoolean: the empty string is falsy.
Truthy(v) == IF v.type = "string" THEN v.str # << >> ELSE v.bool

\* a && b: a when a is falsy, else b.
JsAnd(a, b) == IF Truthy(a) THEN b ELSE a

\* probablyImmutables, lines 313-317.
probablyImmutables(bytecode1, bytecode2) ==
    JsAnd(JsAnd(JsAnd(JsString(bytecode1), JsString(bytecode2)),
                JsBoolean(Len(bytecode1) = Len(bytecode2))),
          JsBoolean(bytecode1 # bytecode2))

\* The bytecodes getBytecodeWithoutMetadata is applied to: every short string
\* over digits, a letter that is no digit, a sign and a blank; and deployed
\* code of every length up to MaxFill followed by a metadata length.
CodeChars == {"0", "1", "f", "x", "-", " "}
Filler(k) == [i \in 1..k |-> IF i % 2 = 1 THEN "6" ELSE "0"]
SampleTails ==
    { <<"0", "0", "2", "1">>, <<"0", "0", "0", "a">>, <<"0", "0", "0", "A">>,
      <<"0", "0", "1", "0">>, <<"0", "x", "1", "0">> }
Bytecodes ==
    SeqsUpTo(CodeChars, MaxCodeLen)
    \cup {Filler(k) \o t : k \in 0..MaxFill, t \in SampleTails}

\* The bytecodes probablyImmutables compares.
PairCodes == SeqsUpTo({"6", "0"}, MaxPairLen)

\* The version strings getSolcJs canonicalizes.
VersionTexts ==
    SeqsUpTo({"v", "0", " "}, MaxVerLen)
    \cup {Latest, <<" ">> \o Latest \o <<" ">>, <<"v">> \o Latest, Latest \o <<"0">>}

\* One helper is about to be applied to its arguments; no recompile call.
InitHelpers ==
    /\ NoCalls
    /\ disk = [p \in {} |-> Complete]
    /\ proc = [c \in Calls |-> 1]
    /\ ret = << >>
    /\ \/ op = "getBytecodeWithoutMetadata" /\ \E b \in Bytecodes : args = <<b>>
       \/ op = "probablyImmutables" /\ \E a, b \in PairCodes : args = <<a, b>>
       \/ op = "canonicalVersion" /\ \E v \in VersionTexts : args = <<v>>

Untouched ==
    UNCHANGED <<pc, version, fileName, solcPath, compiled, result, log, trace, ran,
                request, disk, proc, op, args>>

\* getBytecodeWithoutMetadata is called.
StripMetadata ==
    /\ op = "getBytecodeWithoutMetadata"
    /\ ret = << >>
    /\ ret' = <<getBytecodeWithoutMetadata(args[1])>>
    /\ Untouched

\* probablyImmutables is called.
CompareBytecodes ==
    /\ op = "probablyImmutables"
    /\ ret = << >>
    /\ ret' = <<probablyImmutables(args[1], args[2])>>
    /\ Untouched

\* getSolcJs canonicalizes the version it is given, then its own result.
Canonicalize ==
    /\ op = "canonicalVersion"
    /\ Len(ret) < 2
    /\ ret' = Append(ret, CanonVersion(IF ret = << >> THEN args[1] ELSE ret[Len(ret)]))
    /\ Untouched

NextHelpers == StripMetadata \/ CompareBytecodes \/ Canonicalize

SpecHelpers == InitHelpers /\ [][NextHelpers]_vars

\* ----------------------------------------------------------------- claims

Range(seq) == {seq[i] : i \in DOMAIN seq}
Did(c, event) == event \in Range(trace[c])

\* The resolution tier an operation belongs to (0: none).
TierOf(event) ==
    CASE event \in {"existsSync:tmp", "existsSync:repo"} -> 1
      [] event = "fetch" -> 2
      [] event = "existsSync:soljson" -> 3
      [] event = "loadRemoteVersion" -> 4
      [] OTHER -> 0
IsTierEvent(event) == TierOf(event) # 0
Tiers(events) ==
    LET t == SelectSeq(events, IsTierEvent)
    IN  [i \in 1..Len(t) |-> TierOf(t[i])]

\* The native cache directories that hold file `name`.
CachedIn(files, name) ==
    {d \in {TmpSolcRepo, SolcRepo} : PathJoin(d, name) \in DOMAIN files}

C1_Order ==
    \A c \in Calls :
       LET t == Tiers(trace[c])
       IN  /\ t # << >> => t[1] = 1
           /\ \A i \in 1..(Len(t) - 1) :
                 \/ t[i + 1] = t[i] + 1
                 \/ t[i + 1] = 1 /\ t[i] = 1
           /\ Did(c, "fetch") => ~Did(c, "spawnSync") \/ Did(c, "writeFileSync")
           /\ Did(c, "existsSync:soljson") =>
                 ~Did(c, "writeFileSync") /\ ~Did(c, "spawnSync")
           /\ Did(c, "loadRemoteVersion") => ~Did(c, "require")

C1_Lookup ==
    \A c \in Calls :
       /\ (Idle(c) /\ ~Idle(c)') =>
             LET cached == CachedIn(disk, fileName'[c])
             IN  IF cached # {}
                 THEN /\ solcPath'[c].has
                      /\ solcPath'[c].val.name = fileName'[c]
                      /\ solcPath'[c].val.dir \in cached
                      /\ request'[c] = NoRequest
                      /\ Tiers(trace'[c]) \in {<<1>>, <<1, 1>>}
                 ELSE /\ ~solcPath'[c].has
                      /\ Tiers(trace'[c]) = <<1, 1, 2>>
       /\ (~Idle(c) /\ request[c] = NoRequest) =>
             /\ request'[c] = NoRequest
             /\ ~Did(c, "fetch")'
             /\ ~Did(c, "loadRemoteVersion")'

\* C1: in every call the tiers are attempted in the order cached native
\* binary, native download, local module, remote module; a tier is attempted
\* only after every earlier one missed and none after the first success; a
\* call that finds the binary in a cache directory gets that path and makes no
\* network call, in that step or later.
C1_TierOrder == []C1_Order /\ [][C1_Lookup]_vars

\* C1 witness: a call went through all four tiers in order and returned.
C1_Witness ==
    \E c \in Calls :
       /\ pc[c] = "returned"
       /\ Tiers(trace[c]) = <<1, 1, 2, 3, 4>>

\* C2: a non-200 response to the native download yields no path, writes
\* nothing, and takes the same call on to getSolcJs.
C2_Non200FallsThrough ==
    \A c \in Calls :
       (request[c].state = "fulfilled" /\ request[c].status # StatusOK) =>
          /\ ~solcPath[c].has
          /\ ~Did(c, "mkdirSync") /\ ~Did(c, "writeFileSync")
          /\ CachedIn(disk, fileName[c]) = {}
          /\ pc[c] \in {"getSolcJs", "loadingRemote", "compileJs", "parse",
                        "returned", "thrown"}
          /\ pc[c] # "getSolcJs" => Did(c, "existsSync:soljson")
          /\ ran[c] = "none"

\* C2 witness: after a 404 the call compiled with the module and returned.
C2_Witness ==
    \E c \in Calls :
       /\ request[c].state = "fulfilled" /\ request[c].status = 404
       /\ Did(c, "compile")
       /\ pc[c] = "returned"

\* C3: a native download whose request itself fails is not fatal: it is
\* logged, the caller sees no error of it, and the call goes on to the module
\* tier.
C3_NetworkFailureFallsThrough ==
    \A c \in Calls :
       request[c].state = "rejected" =>
          /\ result[c] # FetchError
          /\ \E i \in DOMAIN log[c] : log[c][i].level = "error"
          /\ pc[c] \in {"getSolcJs", "loadingRemote", "compileJs", "parse",
                        "returned", "thrown"}
          /\ pc[c] # "getSolcJs" => Did(c, "existsSync:soljson")

\* The compiler output a call holds, when its text is JSON.
HasOutput(c) == compiled[c].has /\ compiled[c].val.kind = "json"
OutputOf(c) == compiled[c].val.value
LacksTarget(c) ==
    HasOutput(c) /\ TargetMissing(OutputOf(c), TargetFile, TargetContract)

\* C4: every output that lacks the contracts section, the target file or the
\* target contract makes recompile fail with the invalid-metadata error, with
\* or without an `errors` list.
C4_MissingTargetError ==
    \A c \in Calls :
       (Settled(c) /\ LacksTarget(c)) =>
          result[c] = Thrown("Error", InvalidMetadataMessage)

\* C5: a native compiler that writes nothing to stdout makes useCompiler fail
\* with "Recompilation error"; the empty text is never handed on to be parsed.
C5_EmptyStdoutFails ==
    \A c \in Calls :
       /\ compiled[c] # Some(EmptyText)
       /\ result[c] # JsonSyntaxError

\* C6: resolution fails only once the remote module fetch was reached and
\* failed, and the caller then gets the error "solc not found".
C6_OnlyLastTierFails ==
    \A c \in Calls :
       (pc[c] = "thrown" /\ ~Did(c, "spawnSync") /\ ~Did(c, "compile")) =>
          /\ Did(c, "loadRemoteVersion")
          /\ result[c] = Thrown("Error", <<"solc not found">>)

\* s is t with whitespace removed from both ends, stated without Trim.
IsTrimOf(s, t) ==
    /\ s # << >> => s[1] \notin WhiteSpace /\ s[Len(s)] \notin WhiteSpace
    /\ \E i \in 0..Len(t) :
          /\ i + Len(s) <= Len(t)
          /\ \A k \in 1..Len(s) : t[i + k] = s[k]
          /\ \A k \in 1..Len(t) : (k <= i \/ k > i + Len(s)) => t[k] \in WhiteSpace

\* C7: when the output holds contracts[fileName][contractName], recompile
\* returns "0x" + its bytecode object, "0x" + its deployed bytecode object and
\* its metadata without surrounding whitespace, all of that entry.
C7_ResultOfTargetEntry ==
    \A c \in Calls :
       (Settled(c) /\ HasOutput(c) /\ ~LacksTarget(c)) =>
          LET entry == OutputOf(c).contracts.val[TargetFile][TargetContract]
          IN  /\ pc[c] = "returned"
              /\ result[c].kind = "returned"
              /\ DOMAIN result[c].value = {"bytecode", "deployedBytecode", "metadata"}
              /\ result[c].value.bytecode = <<"0", "x">> \o entry.bytecodeObject
              /\ result[c].value.deployedBytecode =
                    <<"0", "x">> \o entry.deployedBytecodeObject
              /\ IsTrimOf(result[c].value.metadata, entry.metadata)

\* C7 witness: the scenario "6001", "6002", "  {}  " returned
\* "0x6001", "0x6002", "{}".
C7_Witness ==
    \E c \in Calls :
       /\ HasOutput(c)
       /\ OutputOf(c).contracts = Some(Obj1(TargetFile, Obj1(TargetContract, ExampleEntry)))
       /\ result[c] = Returned([bytecode |-> <<"0", "x", "6", "0", "0", "1">>,
                                deployedBytecode |-> <<"0", "x", "6", "0", "0", "2">>,
                                metadata |-> <<"{", "}">>])

\* The native file name the canonical version gives: solc-linux-amd64-v and
\* the canonical version without its own leading v.
NativeFileNameCanon(v) ==
    LET cv == CanonVersion(v)
    IN  SolcPrefix \o (IF StartsWith(cv, <<"v">>) THEN Tail(cv) ELSE cv)

\* C8: the native file name is solc-linux-amd64-v followed by the canonical
\* version without its leading v, whatever the spelling of the version.
C8_NativeNameCanonical ==
    \A c \in Calls :
       ~Idle(c) => fileName[c] = NativeFileNameCanon(version[c])

\* C9: whenever a call runs the binary, the file is one complete download.
C9_NeverRunsPartialFile ==
    \A c \in Calls : ran[c] # Partial

\* Two outputs that differ at most in the content of their diagnostic lists
\* (both carry a list, or neither does).
SameButDiagnostics(o1, o2) ==
    /\ o1.contracts = o2.contracts
    /\ o1.errors.has = o2.errors.has

\* The error in hand when a call threw for a missing target.
ThrewForMissing(c) == pc[c] = "thrown" /\ LacksTarget(c)

\* C10: two outputs lacking the target that differ only in their diagnostics
\* give the same error message, which holds no diagnostic text; the messages
\* of the diagnostics of severity "error" are in the log.
C10_ErrorIndependentOfDiagnostics ==
    \A c1, c2 \in Calls :
       (/\ ThrewForMissing(c1) /\ ThrewForMissing(c2)
        /\ SameButDiagnostics(OutputOf(c1), OutputOf(c2))) =>
          /\ result[c1].error.message = result[c2].error.message
          /\ Range(result[c1].error.message) \cap DiagTexts = {}
          /\ OutputOf(c1).errors.has =>
             LET diags == OutputOf(c1).errors.val
                 last == log[c1][Len(log[c1])]
             IN  /\ last.level = "error"
                 /\ Range(last.errors) =
                       {d.message : d \in {e \in Range(diags) : e.severity = "error"}}
                 /\ Len(last.errors) =
                       Cardinality({i \in DOMAIN diags : diags[i].severity = "error"})
                 /\ \A i \in 1..(Len(log[c1]) - 1) : log[c1][i].errors = << >>

\* C10 witness: two calls threw for the same missing target with different
\* diagnostic texts of severity "error".
C10_Witness ==
    \E c1, c2 \in Calls :
       /\ ThrewForMissing(c1) /\ ThrewForMissing(c2)
       /\ SameButDiagnostics(OutputOf(c1), OutputOf(c2))
       /\ OutputOf(c1).errors.has
       /\ OutputOf(c1).errors.val = <<[severity |-> "error", message |-> "d1"]>>
       /\ OutputOf(c2).errors.val = <<[severity |-> "error", message |-> "d2"]>>

\* The step in which call c looks the native binary up (recompile is called).
Starts(c) == Idle(c) /\ ~Idle(c)'

\* C11: the lookup probes the temporary-download directory first and the
\* primary repository second and returns the first existing path: the
\* temporary path when the binary is in both, the primary path when it is only
\* there.
C11_TmpThenPrimary ==
    [][\A c \in Calls :
          Starts(c) =>
             LET name == fileName'[c]
                 inTmp == PathJoin(TmpSolcRepo, name) \in DOMAIN disk
                 inRepo == PathJoin(SolcRepo, name) \in DOMAIN disk
             IN  /\ inTmp =>
                       /\ solcPath'[c] = Some(PathJoin(TmpSolcRepo, name))
                       /\ trace'[c] = <<"existsSync:tmp">>
                 /\ (~inTmp /\ inRepo) =>
                       /\ solcPath'[c] = Some(PathJoin(SolcRepo, name))
                       /\ trace'[c] = <<"existsSync:tmp", "existsSync:repo">>
                 /\ (~inTmp /\ ~inRepo) => solcPath'[c] = None]_vars

\* C11 witness: the binary is only in the primary repository and the call
\* that found it there returned.
C11_Witness ==
    \E c \in Calls :
       /\ pc[c] = "returned"
       /\ PathJoin(TmpSolcRepo, fileName[c]) \notin DOMAIN disk
       /\ solcPath[c] = Some(PathJoin(SolcRepo, fileName[c]))
       /\ trace[c] = <<"existsSync:tmp", "existsSync:repo", "spawnSync">>

\* Call c is under way and its native binary is in both cache directories.
InBothCaches(c) ==
    /\ ~Idle(c)
    /\ CachedIn(disk, fileName[c]) = {TmpSolcRepo, SolcRepo}

\* C12 as stated: with the binary in both directories the locator returns the
\* primary repository path.
C12_PrimaryPreferred ==
    \A c \in Calls :
       InBothCaches(c) => solcPath[c] = Some(PathJoin(SolcRepo, fileName[c]))

\* C12 amended: the lookup tries the temporary-download path first and the
\* primary path only as a fallback; with the binary in both directories the
\* locator returns the temporary-download path, and a call holds the primary
\* path only while the temporary directory lacks the binary.
C12_TmpPreferred ==
    \A c \in Calls :
       /\ InBothCaches(c) => solcPath[c] = Some(PathJoin(TmpSolcRepo, fileName[c]))
       /\ (solcPath[c].has /\ solcPath[c].val.dir = SolcRepo) =>
             PathJoin(TmpSolcRepo, fileName[c]) \notin DOMAIN disk

\* C12 witness: the binary is in both directories and the call ran the one of
\* the temporary-download directory.
C12_Witness ==
    \E c \in Calls :
       /\ InBothCaches(c)
       /\ Did(c, "spawnSync")
       /\ solcPath[c].val.dir = TmpSolcRepo

\* How many times call c did `event`.
Count(c, event) == Len(SelectSeq(trace[c], LAMBDA e : e = event))

\* C16: within one recompile call the native download is requested at most
\* once, the remote module at most once and a compiler is invoked at most
\* once; a native invocation is the last operation of its call, and one that
\* yields no output ends the call with the recompilation error.
C16_NoRetry ==
    \A c \in Calls :
       /\ Count(c, "fetch") <= 1
       /\ Count(c, "loadRemoteVersion") <= 1
       /\ Count(c, "spawnSync") + Count(c, "compile") <= 1
       /\ Did(c, "spawnSync") =>
             /\ trace[c][Len(trace[c])] = "spawnSync"
             /\ pc[c] \in {"parse", "returned", "thrown"}
             /\ ~compiled[c].has =>
                   /\ pc[c] = "thrown"
                   /\ result[c] = RecompilationError

\* C16 witness: a call downloaded the binary, its invocation failed and the
\* call ended with that failure.
C16_Witness ==
    \E c \in Calls :
       /\ pc[c] = "thrown"
       /\ result[c] = RecompilationError
       /\ Count(c, "fetch") = 1
       /\ Did(c, "spawnSync")
       /\ ~Did(c, "compile")

\* The step in which call c finishes writing the binary it downloaded.
Downloads(c) == pc[c] = "writing" /\ pc'[c] = "spawn"

\* C18: a download that got status 200 leaves the whole binary in the
\* temporary-download directory, no call removes a file, and every resolution
\* that starts while the directory holds the binary of its version returns
\* that path from the lookup without a request.
C18_DownloadIsCached ==
    [][\A c \in Calls :
          /\ Downloads(c) =>
                /\ request[c].status = StatusOK
                /\ PathJoin(TmpSolcRepo, fileName[c]) \in DOMAIN disk'
                /\ disk'[PathJoin(TmpSolcRepo, fileName[c])] = Complete
          /\ DOMAIN disk \subseteq DOMAIN disk'
          /\ (Starts(c) /\ PathJoin(TmpSolcRepo, fileName'[c]) \in DOMAIN disk) =>
                /\ solcPath'[c] = Some(PathJoin(TmpSolcRepo, fileName'[c]))
                /\ request'[c] = NoRequest
                /\ pc'[c] = "spawn"
                /\ "fetch" \notin Range(trace'[c])]_vars

\* C18 witness: a version no installation ships was resolved from the
\* temporary-download directory without a request, so an earlier call
\* downloaded it.
C18_Witness ==
    \E c \in Calls :
       /\ version[c] = <<"v">> \o Release
       /\ solcPath[c] = Some(PathJoin(TmpSolcRepo, fileName[c]))
       /\ request[c] = NoRequest
       /\ trace[c] = <<"existsSync:tmp", "spawnSync">>
       /\ pc[c] = "returned"

\* The module file getSolcJs looks for on behalf of call c.
ModulePath(c) == PathJoin(SoljsonRepo, SoljsonFileName(version[c]))

\* Files p of `files` outside path `except`, with their contents.
Besides(files, except) == [p \in DOMAIN files \ {except} |-> files[p]]

\* C19, the steps: a step that changes the files changes only the native
\* binary of one call in the temporary-download directory, and that call got
\* status 200 for it; the primary and the module repository keep their files.
C19_Frame ==
    /\ disk' # disk =>
          \E c \in Calls :
             /\ request[c].state = "fulfilled"
             /\ request[c].status = StatusOK
             /\ Besides(disk', PathJoin(TmpSolcRepo, fileName[c]))
                   = Besides(disk, PathJoin(TmpSolcRepo, fileName[c]))
    /\ \A p \in DOMAIN disk' :
          p.dir # TmpSolcRepo => (p \in DOMAIN disk /\ disk'[p] = disk[p])

\* C19, the states: a call whose download was refused wrote no file, a module
\* fetched remotely is not in the module repository afterwards, and a call
\* past the module lookup that found no module file asked for it remotely.
C19_NothingElseStored ==
    \A c \in Calls :
       /\ (request[c].state = "fulfilled" /\ request[c].status # StatusOK) =>
             (~Did(c, "mkdirSync") /\ ~Did(c, "writeFileSync"))
       /\ Did(c, "loadRemoteVersion") => ModulePath(c) \notin DOMAIN disk
       /\ (Did(c, "existsSync:soljson") /\ ModulePath(c) \notin DOMAIN disk) =>
             Did(c, "loadRemoteVersion")

\* C19: the only file a recompile call changes is the native binary of its
\* version in the temporary-download directory, after a 200 response; the
\* other repositories are never written, a refused download writes nothing,
\* and a remotely fetched module is never stored, so the next call fetches it
\* again.
C19_OnlyTmpBinaryWritten == []C19_NothingElseStored /\ [][C19_Frame]_vars

\* C19 witness: after a refused download the module was fetched remotely, the
\* call returned, and the module repository still lacks the module.
C19_Witness ==
    \E c \in Calls :
       /\ pc[c] = "returned"
       /\ request[c].state = "fulfilled"
       /\ request[c].status # StatusOK
       /\ Did(c, "loadRemoteVersion")
       /\ Did(c, "compile")
       /\ ModulePath(c) \notin DOMAIN disk
       /\ PathJoin(TmpSolcRepo, fileName[c]) \notin DOMAIN disk

\* getBytecodeWithoutMetadata was applied to `args[1]`.
Stripped == op = "getBytecodeWithoutMetadata" /\ ret # << >>

\* The last four characters of s are hexadecimal digits.
HexTail(s) == Len(s) >= 4 /\ \A i \in Len(s) - 3..Len(s) : IsDigit(s[i])

\* The 16-bit big-endian number the last four characters of s spell.
TailNumber(s) ==
    4096 * DigitValue(s[Len(s) - 3]) + 256 * DigitValue(s[Len(s) - 2])
       + 16 * DigitValue(s[Len(s) - 1]) + DigitValue(s[Len(s)])

\* C13: for a bytecode whose last four hexadecimal characters spell n and
\* whose length is at least 2n + 4, getBytecodeWithoutMetadata returns the
\* input without its last 2n + 4 characters.
C13_RemovesMetadata ==
    (Stripped /\ HexTail(args[1])) =>
       LET len == Len(args[1])
           size == 2 * TailNumber(args[1]) + 4
       IN  len >= size =>
              /\ ret[1] = Returned(SubSeq(args[1], 1, len - size))
              /\ Len(ret[1].value) = len - size

\* C13 witness: a bytecode ending in 0021 came back 70 characters shorter,
\* with some code left.
C13_Witness ==
    /\ Stripped
    /\ SliceFrom(args[1], -4) = <<"0", "0", "2", "1">>
    /\ ret[1].kind = "returned"
    /\ Len(ret[1].value) = Len(args[1]) - 70
    /\ Len(ret[1].value) > 0

\* probablyImmutables was applied to `args[1]` and `args[2]`.
Compared == op = "probablyImmutables" /\ ret # << >>

\* C14: probablyImmutables(a, b) is the boolean true when a and b are
\* non-empty, of equal length and distinct, and the boolean false otherwise
\* (a = b, different lengths, or one of them empty).
C14_BooleanClassification ==
    Compared =>
       ret[1] = JsBoolean(/\ args[1] # << >>
                          /\ args[2] # << >>
                          /\ Len(args[1]) = Len(args[2])
                          /\ args[1] # args[2])

\* The version was canonicalized, and its canonical form once more.
Canonicalized == op = "canonicalVersion" /\ Len(ret) = 2

\* C15: canonicalizing a canonical version changes nothing, and a canonical
\* version is "latest" or begins with v.
C15_CanonIdempotent ==
    op = "canonicalVersion" =>
       /\ \A i \in DOMAIN ret : ret[i] = Latest \/ StartsWith(ret[i], <<"v">>)
       /\ Len(ret) = 2 => ret[2] = ret[1]

\* C15 witness: a version with blanks around it and no v got its v, and the
\* second canonicalization kept it.
C15_Witness ==
    /\ Canonicalized
    /\ args[1] = <<" ", "0", " ">>
    /\ ret[1] = <<"v", "0">>
    /\ ret[2] = <<"v", "0">>

\* s is the first Len(s) characters of t.
IsPrefixOf(s, t) == Len(s) <= Len(t) /\ SubSeq(t, 1, Len(s)) = s

\* C17: on every string, whatever its length and its last four characters,
\* getBytecodeWithoutMetadata throws nothing and returns a prefix of the
\* string, which may be empty.
C17_NeverThrows ==
    Stripped =>
       /\ ret[1].kind = "returned"
       /\ IsPrefixOf(ret[1].value, args[1])

\* C17 witness: a bytecode shorter than the metadata size its last four
\* characters announce came back as a prefix.
C17_Witness ==
    /\ Stripped
    /\ HexTail(args[1])
    /\ Len(args[1]) < 2 * TailNumber(args[1]) + 4
    /\ ret[1].kind = "returned"
    /\ IsPrefixOf(ret[1].value, args[1])
    /\ ret[1].value # << >>

====
